---- MODULE Spec2Model ----
(***************************************************************************)
(* Model of src/src/kafka-embedded.js: the KafkaManager provisioning       *)
(* pipeline (allocatePorts -> createTempDirectory -> createKafkaConfig ->  *)
(* initializeStorage -> startKafkaProcess) and the close operation of the  *)
(* handle it returns (killProcess -> stopKafkaServer).                     *)
(*                                                                         *)
(* Every makeKafkaServer() call builds its own KafkaManager, so a pipeline *)
(* p carries its own takenPorts.  The operating system is the shared part: *)
(* the set of TCP ports that running brokers hold.  Each callback of the   *)
(* source is one action; a promise continuation that runs in a later       *)
(* microtask (the await after a resolve, the .then of close) is its own    *)
(* action.  Outcomes of operating-system calls are chosen with \E.         *)
(***************************************************************************)
EXTENDS Integers, Sequences, FiniteSets, TLC

\* ---- bounds ----
NumPipelines == 2
NumPorts == 4
MaxCloseCalls == 1

\* ---- program constants ----
BASE_PORT == 18000

Pipelines == 1..NumPipelines
Ports == BASE_PORT..(BASE_PORT + NumPorts - 1)

NoPorts == [kafkaPort |-> 0, controllerPort |-> 0]

VARIABLES
  pc,          \* pc[p]: where the promise chain of startKafkaServer stands
  takenPorts,  \* takenPorts[p]: this.takenPorts of the pipeline's manager
  probed,      \* probed[p]: ports portfinder.getPorts has found so far
  ports,       \* ports[p]: the pair allocatePorts resolved with
  kafkaDir,    \* kafkaDir[p]: TRUE once tmp.dir created the workspace
  configFile,  \* configFile[p]: state of <kafkaDir>/server.properties
  formatted,   \* formatted[p]: times the storage format command was run
  child,       \* child[p]: the kafkaProcess ChildProcess
  holds,       \* holds[p]: ports the broker process of p has bound
  timer,       \* timer[p]: the setTimeout(..., WAIT_TIME) of startKafkaProcess
  kills,       \* kills[p]: number of proc.kill('SIGKILL') calls
  calls,       \* calls[p]: one record per call of the handle's close
  errs,        \* errs[p]: steps whose failure was delivered to a callback
  thrown,      \* thrown[p]: the error startKafkaServer rejected with
  trace,       \* trace[p]: pipeline steps started, in order
  run,         \* run[p]: what the pipeline handed to the file system, to
               \*   exec, to spawn and to its caller
  proc,        \* the harness process: process.env, the tmp module's
               \*   graceful-cleanup flag, whether the process has exited
  fn           \* a single call of createKafkaConfig, of the spawn of
               \*   startKafkaProcess or of getAvailablePort, on its own

vars == <<pc, takenPorts, probed, ports, kafkaDir, configFile, formatted,
          child, holds, timer, kills, calls, errs, thrown, trace,
          run, proc, fn>>

Steps == {"getPorts", "tmp.dir", "createEditor", "props.save", "exec", "spawn"}

\* ---- helpers ----
Min(S) == CHOOSE x \in S : \A y \in S : x <= y

\* ports some running broker is listening on
OsBound == UNION {holds[p] : p \in Pipelines}

\* portfinder.nextPort
NextPort(port) == port + 1

\* portfinder.getPort: the lowest bindable port at or above start
Bindable(start) == {x \in Ports : x >= start /\ x \notin OsBound}

\* allocatePorts line 88, with a swapped index
PortPairOfSameIndex(found) ==
  [kafkaPort |-> found[1], controllerPort |-> found[1]]

\* allocatePorts line 88: resolve({ kafkaPort: ports[0], controllerPort: ports[1] })
PortPairOf(found) ==
  [kafkaPort |-> found[1], controllerPort |-> found[2]]

PortSet(pair) == {pair.kafkaPort, pair.controllerPort}

Allocated(p) == ports[p] # NoPorts

\* ---- paths and text ----
\* A path or a property value is a sequence of tokens; a path separator and
\* a decimal digit are tokens of their own.

DigitChars == <<"0", "1", "2", "3", "4", "5", "6", "7", "8", "9">>

\* `${port}`: the decimal digits of a number
RECURSIVE ToDecimal(_)
ToDecimal(n) ==
  IF n < 10 THEN <<DigitChars[n + 1]>>
  ELSE ToDecimal(n \div 10) \o <<DigitChars[(n % 10) + 1]>>

\* path.sep of the host
Sep(win) == IF win THEN "\\" ELSE "/"

\* path.join(kafkaDir, 'server.properties')
PathJoin(dir, name, win) == dir \o <<Sep(win), name>>

\* kafkaDir.replace(/\\/g, '\\\\'): every backslash is doubled
RECURSIVE EscapeBackslashes(_)
EscapeBackslashes(path) ==
  IF path = <<>> THEN <<>>
  ELSE (IF Head(path) = "\\" THEN <<"\\", "\\">> ELSE <<Head(path)>>)
         \o EscapeBackslashes(Tail(path))

\* the directory tmp.dir({ prefix: 'kafka-' }) creates for invocation p
TmpDir(p) == <<"/", "tmp", "/", "kafka-">> \o ToDecimal(p)

\* ---- createKafkaConfig ----
NoProps == [k \in {} |-> <<>>]

\* props.set(key, value) of the properties editor: the key gets the value,
\* a key the template lacks is added, every other key keeps its value
PropsSet(props, key, value) ==
  [k \in DOMAIN props \cup {key} |-> IF k = key THEN value ELSE props[k]]

\* `localhost:${controllerPort}`
Bootstrap(controllerPort) == <<"localhost:">> \o ToDecimal(controllerPort)

\* `PLAINTEXT://localhost:${kafkaPort},CONTROLLER://localhost:${controllerPort}`
Listeners(kafkaPort, controllerPort) ==
  <<"PLAINTEXT://localhost:">> \o ToDecimal(kafkaPort)
    \o <<",CONTROLLER://localhost:">> \o ToDecimal(controllerPort)

\* createKafkaConfig that builds the file from an empty editor
CreateConfigPropsFromEmpty(template, dir, kafkaPort, controllerPort) ==
  LET p1 == PropsSet(NoProps, "log.dirs", EscapeBackslashes(dir))
      p2 == PropsSet(p1, "controller.quorum.bootstrap.servers",
                     Bootstrap(controllerPort))
      p3 == PropsSet(p2, "listeners", Listeners(kafkaPort, controllerPort))
      p4 == PropsSet(p3, "advertised.listeners",
                     Listeners(kafkaPort, controllerPort))
  IN PropsSet(p4, "controller.listener.names", <<"CONTROLLER">>)

\* createKafkaConfig lines 129-134: the five props.set calls on the editor
\* that createEditor filled from the template
CreateConfigProps(template, dir, kafkaPort, controllerPort) ==
  LET p1 == PropsSet(template, "log.dirs", EscapeBackslashes(dir))
      p2 == PropsSet(p1, "controller.quorum.bootstrap.servers",
                     Bootstrap(controllerPort))
      p3 == PropsSet(p2, "listeners", Listeners(kafkaPort, controllerPort))
      p4 == PropsSet(p3, "advertised.listeners",
                     Listeners(kafkaPort, controllerPort))
  IN PropsSet(p4, "controller.listener.names", <<"CONTROLLER">>)

\* the template the pipelines read: kafka/config/server.properties
Template ==
  [k \in {"node.id", "listeners", "log.dirs"} |-> <<"template">>]

\* ---- startKafkaProcess: the spawn call ----
NoEnv == [k \in {} |-> ""]

\* the environment is passed on with JMX_PORT left as it is
ChildEnvAsIs(env) == env

\* { ...process.env, JMX_PORT: '' }
ChildEnv(env) ==
  [k \in DOMAIN env \cup {"JMX_PORT"} |-> IF k = "JMX_PORT" THEN "" ELSE env[k]]

\* process.env after the spawn call, had the code cleared the variable in
\* process.env itself
EnvAfterSpawnCleared(env) == ChildEnv(env)

\* process.env after the spawn call: the spread builds a new object
EnvAfterSpawn(env) == env

\* spawn(scriptPath, [propertiesFile], { env, cwd: kafkaDir })
SpawnOptions(dir, env, win) ==
  [args |-> <<PathJoin(dir, "server.properties", win)>>,
   cwd |-> dir,
   env |-> ChildEnv(env)]

NoSpawn == [args |-> <<>>, cwd |-> <<>>, env |-> NoEnv]

\* startKafkaServer line 221 and the resolve of line 202: kafkaPort
HandlePortOf(pair) == pair.kafkaPort

\* the arguments createKafkaConfig is called with, ports swapped
ConfigPortsSwapped(pair) ==
  [kafkaPort |-> pair.controllerPort, controllerPort |-> pair.kafkaPort]

\* startKafkaServer lines 214-218: the arguments of createKafkaConfig
ConfigPorts(pair) ==
  [kafkaPort |-> pair.kafkaPort, controllerPort |-> pair.controllerPort]

NoRun == [props |-> NoProps, execArg |-> <<>>, spawn |-> NoSpawn,
          handlePort |-> 0, stops |-> 0]

\* ---- the harness process ----
\* the process the pipelines of the main specification run in
MainEnv == [k \in {"PATH", "JMX_PORT"} |->
              IF k = "PATH" THEN "/usr/bin" ELSE "9999"]

\* nothing recorded about an exit
NoneLeft == [dirs |-> {}, unclosed |-> {}, failed |-> {}]

\* a constructor without tmp.setGracefulCleanup()
ConstructedNoCleanup(pr) == pr

\* KafkaManager constructor, line 28: tmp.setGracefulCleanup()
Constructed(pr) == [pr EXCEPT !.graceful = TRUE]

\* tmp.dir options of line 95
TmpDirOptions == [unsafeCleanup |-> TRUE]

\* no function call on its own is in progress
NoFn == [kind |-> "none"]

\* the catch block of startKafkaServer: log and rethrow
Reject(p, e) ==
  /\ pc' = [pc EXCEPT ![p] = "rejected"]
  /\ errs' = [errs EXCEPT ![p] = @ \cup {e}]
  /\ thrown' = [thrown EXCEPT ![p] = e]

\* the harness before the first makeKafkaServer call
HarnessInit ==
  /\ pc = [p \in Pipelines |-> "init"]
  /\ takenPorts = [p \in Pipelines |-> <<>>]
  /\ probed = [p \in Pipelines |-> <<>>]
  /\ ports = [p \in Pipelines |-> NoPorts]
  /\ kafkaDir = [p \in Pipelines |-> FALSE]
  /\ configFile = [p \in Pipelines |-> "absent"]
  /\ formatted = [p \in Pipelines |-> 0]
  /\ child = [p \in Pipelines |-> "none"]
  /\ holds = [p \in Pipelines |-> {}]
  /\ timer = [p \in Pipelines |-> "unset"]
  /\ kills = [p \in Pipelines |-> 0]
  /\ calls = [p \in Pipelines |-> <<>>]
  /\ errs = [p \in Pipelines |-> {}]
  /\ thrown = [p \in Pipelines |-> "none"]
  /\ trace = [p \in Pipelines |-> <<>>]
  /\ run = [p \in Pipelines |-> NoRun]
  /\ proc = [env |-> MainEnv, win |-> FALSE, graceful |-> FALSE,
             exited |-> FALSE, atExit |-> NoneLeft]

Init ==
  /\ HarnessInit
  /\ fn = NoFn

\* makeKafkaServer: new KafkaManager().startKafkaServer(); the constructor
\* sets takenPorts = [] and startKafkaServer calls allocatePorts.  The
\* invocations are numbered in the order in which they are made.
MakeKafkaServer(p) ==
  /\ pc[p] = "init"
  /\ p > 1 => pc[p - 1] # "init"
  /\ pc' = [pc EXCEPT ![p] = "allocatePorts"]
  /\ takenPorts' = [takenPorts EXCEPT ![p] = <<>>]
  /\ trace' = [trace EXCEPT ![p] = Append(@, "getPorts")]
  /\ UNCHANGED <<probed, ports, kafkaDir, configFile, formatted, child, holds,
                 timer, kills, calls, errs, thrown>>
  /\ proc' = Constructed(proc)
  /\ UNCHANGED <<run, fn>>

\* allocatePorts: portfinder.getPorts(2, {}, cb).  getPorts probes one port
\* at a time, the second scan starting one above the first port found; an
\* error of a probe, or no bindable port left, goes to reject.  The callback
\* resolves with the pair and the pipeline goes on to createTempDirectory.
\* takenPorts is neither read nor written.
AllocatePorts(p) ==
  /\ pc[p] = "allocatePorts"
  /\ \E ok \in BOOLEAN :
       LET start == IF probed[p] = <<>> THEN BASE_PORT
                    ELSE NextPort(probed[p][Len(probed[p])])
           free == Bindable(start)
       IN IF ~ok \/ free = {}
          THEN /\ Reject(p, "getPorts")
               /\ UNCHANGED <<probed, ports, trace>>
          ELSE LET found == Append(probed[p], Min(free))
               IN /\ probed' = [probed EXCEPT ![p] = found]
                  /\ IF Len(found) = 2
                     THEN /\ ports' = [ports EXCEPT ![p] = PortPairOf(found)]
                          /\ pc' = [pc EXCEPT ![p] = "createTempDirectory"]
                          /\ trace' = [trace EXCEPT ![p] = Append(@, "tmp.dir")]
                     ELSE UNCHANGED <<ports, pc, trace>>
                  /\ UNCHANGED <<errs, thrown>>
  /\ UNCHANGED <<takenPorts, kafkaDir, configFile, formatted, child, holds,
                 timer, kills, calls>>
  /\ UNCHANGED <<run, proc, fn>>

\* createTempDirectory: tmp.dir callback, err ? reject(err) : resolve(path);
\* on success createKafkaConfig starts reading the template
CreateTempDirectory(p) ==
  /\ pc[p] = "createTempDirectory"
  /\ \E ok \in BOOLEAN :
       IF ok
       THEN /\ kafkaDir' = [kafkaDir EXCEPT ![p] = TRUE]
            /\ pc' = [pc EXCEPT ![p] = "createKafkaConfig"]
            /\ trace' = [trace EXCEPT ![p] = Append(@, "createEditor")]
            /\ UNCHANGED <<errs, thrown>>
       ELSE /\ Reject(p, "tmp.dir")
            /\ UNCHANGED <<kafkaDir, trace>>
  /\ UNCHANGED <<takenPorts, probed, ports, configFile, formatted, child,
                 holds, timer, kills, calls>>
  /\ UNCHANGED <<run, proc, fn>>

\* createKafkaConfig: the createEditor callback; if (err) return reject(err),
\* otherwise the five keys are set and props.save is started
CreateKafkaConfig(p) ==
  /\ pc[p] = "createKafkaConfig"
  /\ \E ok \in BOOLEAN :
       IF ok
       THEN /\ pc' = [pc EXCEPT ![p] = "props.save"]
            /\ trace' = [trace EXCEPT ![p] = Append(@, "props.save")]
            /\ UNCHANGED <<errs, thrown>>
       ELSE /\ Reject(p, "createEditor")
            /\ UNCHANGED trace
  /\ UNCHANGED <<takenPorts, probed, ports, kafkaDir, configFile, formatted,
                 child, holds, timer, kills, calls>>
  /\ UNCHANGED <<run, proc, fn>>

\* createKafkaConfig: the props.save callback.  The write of
\* <kafkaDir>/server.properties either happened or failed; the callback
\* takes no argument and resolves with the path, and startKafkaServer
\* goes on to initializeStorage, which starts the format command.
PropsSave(p) ==
  /\ pc[p] = "props.save"
  /\ \E written \in BOOLEAN :
       /\ configFile' = [configFile EXCEPT ![p] =
                           IF written THEN "written" ELSE "absent"]
       /\ errs' = [errs EXCEPT ![p] =
                     IF written THEN @ ELSE @ \cup {"props.save"}]
       /\ pc' = [pc EXCEPT ![p] = "initializeStorage"]
       /\ trace' = [trace EXCEPT ![p] = Append(@, "exec")]
       /\ formatted' = [formatted EXCEPT ![p] = @ + 1]
  /\ UNCHANGED <<takenPorts, probed, ports, kafkaDir, child, holds, timer,
                 kills, calls, thrown>>
  /\ run' = [run EXCEPT
       ![p].props = IF configFile'[p] = "written"
                    THEN CreateConfigProps(Template, TmpDir(p),
                                           ConfigPorts(ports[p]).kafkaPort,
                                           ConfigPorts(ports[p]).controllerPort)
                    ELSE NoProps,
       ![p].execArg = PathJoin(TmpDir(p), "server.properties", proc.win)]
  /\ UNCHANGED <<proc, fn>>

\* initializeStorage: the exec callback; if (error) reject(error), otherwise
\* resolve() and startKafkaServer calls startKafkaProcess.  The command is
\* "kafka-storage format ... -c <propertiesFile>": it reads the config file,
\* so it exits non-zero when that file was not written.
InitializeStorage(p) ==
  /\ pc[p] = "initializeStorage"
  /\ \E ok \in BOOLEAN :
       IF ok /\ configFile[p] = "written"
       THEN /\ pc' = [pc EXCEPT ![p] = "startKafkaProcess"]
            /\ UNCHANGED <<errs, thrown>>
       ELSE Reject(p, "exec")
  /\ UNCHANGED <<takenPorts, probed, ports, kafkaDir, configFile, formatted,
                 child, holds, timer, kills, calls, trace>>
  /\ UNCHANGED <<run, proc, fn>>

\* startKafkaProcess up to the end of the promise executor: spawn the start
\* script, register the stdout/stderr/error/exit listeners, arm the timer.
\* spawn returns a ChildProcess also when the launch fails; the failure is
\* reported later through the 'error' event.
StartKafkaProcess(p) ==
  /\ pc[p] = "startKafkaProcess"
  /\ \E launched \in BOOLEAN :
       child' = [child EXCEPT ![p] = IF launched THEN "running" ELSE "failed"]
  /\ timer' = [timer EXCEPT ![p] = "pending"]
  /\ pc' = [pc EXCEPT ![p] = "waiting"]
  /\ trace' = [trace EXCEPT ![p] = Append(@, "spawn")]
  /\ UNCHANGED <<takenPorts, probed, ports, kafkaDir, configFile, formatted,
                 holds, kills, calls, errs, thrown>>
  /\ run' = [run EXCEPT
       ![p].spawn = SpawnOptions(TmpDir(p), proc.env, proc.win)]
  /\ proc' = [proc EXCEPT !.env = EnvAfterSpawn(@)]
  /\ UNCHANGED fn

\* kafkaProcess.on('error', ...): the listener only logs.  Node may or may
\* not emit 'exit' after 'error'; both come long before any close call, so
\* an 'exit' emitted here finds only the logging listener of line 193.
OnChildError(p) ==
  /\ child[p] = "failed"
  /\ "spawn" \notin errs[p]
  /\ errs' = [errs EXCEPT ![p] = @ \cup {"spawn"}]
  /\ \E exitToo \in BOOLEAN :
       child' = [child EXCEPT ![p] = IF exitToo THEN "exited" ELSE "failed"]
  /\ UNCHANGED <<pc, takenPorts, probed, ports, kafkaDir, configFile,
                 formatted, holds, timer, kills, calls, thrown, trace>>
  /\ UNCHANGED <<run, proc, fn>>

\* the broker process binds the two listeners of its config; it can do so
\* only while no other process holds them
BrokerBind(p) ==
  /\ child[p] = "running"
  /\ holds[p] = {}
  /\ PortSet(ports[p]) \cap OsBound = {}
  /\ holds' = [holds EXCEPT ![p] = PortSet(ports[p])]
  /\ UNCHANGED <<pc, takenPorts, probed, ports, kafkaDir, configFile,
                 formatted, child, timer, kills, calls, errs, thrown, trace>>
  /\ UNCHANGED <<run, proc, fn>>

\* the 'exit' event of kafkaProcess: the listener of line 193 logs, every
\* listener a killProcess call registered before now resolves its promise;
\* the operating system releases the ports of the dead process
EmitExit(p) ==
  /\ child' = [child EXCEPT ![p] = "exited"]
  /\ holds' = [holds EXCEPT ![p] = {}]
  /\ calls' = [calls EXCEPT ![p] =
                 [c \in DOMAIN @ |-> [@[c] EXCEPT !.exitObserved = TRUE]]]
  /\ UNCHANGED <<pc, takenPorts, probed, ports, kafkaDir, configFile,
                 formatted, timer, kills, errs, thrown, trace>>
  /\ UNCHANGED <<run, proc, fn>>

\* the broker exits on its own (crash, listener already in use, or the
\* SIGTERM that the stop script of another instance sends to every broker)
ChildCrash(p) ==
  /\ child[p] = "running"
  /\ EmitExit(p)

\* the broker dies of the SIGKILL that killProcess sent
ChildKilled(p) ==
  /\ child[p] = "running"
  /\ kills[p] > 0
  /\ EmitExit(p)

\* the setTimeout callback of startKafkaProcess: resolve({kafkaPort, close}).
\* The 'error' event of a failed launch is emitted on the next tick after
\* spawn, so it precedes the timer.
TimerFire(p) ==
  /\ timer[p] = "pending"
  /\ child[p] = "failed" => "spawn" \in errs[p]
  /\ timer' = [timer EXCEPT ![p] = "fired"]
  /\ UNCHANGED <<pc, takenPorts, probed, ports, kafkaDir, configFile,
                 formatted, child, holds, kills, calls, errs, thrown, trace>>
  /\ run' = [run EXCEPT ![p].handlePort = HandlePortOf(ports[p])]
  /\ UNCHANGED <<proc, fn>>

\* resolve is called without waiting for the timer
HandleReadyNoWait(p) == pc[p] = "waiting"

\* the promise of startKafkaProcess is resolved only inside the timer
\* callback (lines 200-206)
HandleReady(p) == pc[p] = "waiting" /\ timer[p] = "fired"

\* return await this.startKafkaProcess(...): the handle reaches the caller
\* of makeKafkaServer
DeliverHandle(p) ==
  /\ HandleReady(p)
  /\ pc' = [pc EXCEPT ![p] = "resolved"]
  /\ UNCHANGED <<takenPorts, probed, ports, kafkaDir, configFile, formatted,
                 child, holds, timer, kills, calls, errs, thrown, trace>>
  /\ UNCHANGED <<run, proc, fn>>

\* killProcess resolves right after kill, not in the exit listener
NewCallResolved == [exitObserved |-> TRUE, stop |-> "none"]

\* killProcess: the promise is pending until the 'exit' listener runs
NewCall == [exitObserved |-> FALSE, stop |-> "none"]

\* close calls made so far in this process, over all handles
RECURSIVE SumCalls(_)
SumCalls(n) == IF n = 0 THEN 0 ELSE Len(calls[n]) + SumCalls(n - 1)

TotalCalls == SumCalls(NumPipelines)

\* handle.close(): killProcess registers an 'exit' listener and sends
\* SIGKILL.  A child that has already exited (or never started) emits no
\* further 'exit', so that listener never runs.  The caller makes at most
\* MaxCloseCalls calls of close in the lifetime of the process.
Close(p) ==
  /\ pc[p] = "resolved"
  /\ TotalCalls < MaxCloseCalls
  /\ calls' = [calls EXCEPT ![p] = Append(@, NewCall)]
  /\ kills' = [kills EXCEPT ![p] = @ + 1]
  /\ UNCHANGED <<pc, takenPorts, probed, ports, kafkaDir, configFile,
                 formatted, child, holds, timer, errs, thrown, trace>>
  /\ UNCHANGED <<run, proc, fn>>

\* the continuation of close runs stopKafkaServer again while the stop
\* script of the call is still running
StopDueAgain(p, c) ==
  calls[p][c].exitObserved /\ calls[p][c].stop \in {"none", "running"}

\* stopKafkaServer is called without waiting for killProcess
StopDueNoWait(p, c) == calls[p][c].stop = "none"

\* close: killProcess(kafkaProcess).then(() => this.stopKafkaServer())
StopDue(p, c) == calls[p][c].stop = "none" /\ calls[p][c].exitObserved

\* stopKafkaServer: spawn the kafka-server-stop script and listen for its
\* exit; a script that cannot be launched never emits 'exit'
StopKafkaServer(p, c) ==
  /\ c \in DOMAIN calls[p]
  /\ StopDue(p, c)
  /\ \E launched \in BOOLEAN :
       calls' = [calls EXCEPT ![p][c].stop =
                   IF launched THEN "running" ELSE "failed"]
  /\ UNCHANGED <<pc, takenPorts, probed, ports, kafkaDir, configFile,
                 formatted, child, holds, timer, kills, errs, thrown, trace>>
  /\ run' = [run EXCEPT ![p].stops = @ + 1]
  /\ UNCHANGED <<proc, fn>>

\* proc.on('exit', resolve) of stopKafkaServer: the promise of close resolves
StopExit(p, c) ==
  /\ c \in DOMAIN calls[p]
  /\ calls[p][c].stop = "running"
  /\ calls' = [calls EXCEPT ![p][c].stop = "exited"]
  /\ UNCHANGED <<pc, takenPorts, probed, ports, kafkaDir, configFile,
                 formatted, child, holds, timer, kills, errs, thrown, trace>>
  /\ UNCHANGED <<run, proc, fn>>

CloseResolved(p, c) == calls[p][c].stop = "exited"

\* ---- process exit ----

\* the workspace of p holds no file
DirEmpty(p) == configFile[p] = "absent"

\* the exit listener of the tmp module removes a directory it created when
\* graceful cleanup was requested; a directory that is not empty goes only
\* with unsafeCleanup
Removable(p) ==
  proc.graceful /\ (TmpDirOptions.unsafeCleanup \/ DirEmpty(p))

\* what the process leaves behind, for the record: the invocations whose
\* workspace existed at exit, those among them that never had close called,
\* and those whose pipeline had failed
AtExit ==
  LET dirs == {p \in Pipelines : kafkaDir[p]}
  IN [dirs |-> dirs,
      unclosed |-> {p \in dirs : calls[p] = <<>>},
      failed |-> {p \in dirs : pc[p] = "rejected"}]

\* The harness process exits.  Its promises, timers and listeners are gone
\* with it; the tmp module's exit listener removes the workspaces; a broker
\* that still runs keeps running (and keeps its ports) as an orphan.
ProcessExit ==
  /\ ~proc.exited
  /\ proc' = [proc EXCEPT !.exited = TRUE, !.atExit = AtExit]
  /\ kafkaDir' = [p \in Pipelines |-> kafkaDir[p] /\ ~Removable(p)]
  /\ configFile' = [p \in Pipelines |->
                      IF kafkaDir[p] /\ Removable(p) THEN "absent"
                      ELSE configFile[p]]
  /\ pc' = [p \in Pipelines |-> "gone"]
  /\ child' = [p \in Pipelines |->
                 IF child[p] = "running" THEN "running" ELSE "none"]
  /\ ports' = [p \in Pipelines |->
                 IF child[p] = "running" THEN ports[p] ELSE NoPorts]
  /\ takenPorts' = [p \in Pipelines |-> <<>>]
  /\ probed' = [p \in Pipelines |-> <<>>]
  /\ formatted' = [p \in Pipelines |-> 0]
  /\ timer' = [p \in Pipelines |-> "unset"]
  /\ kills' = [p \in Pipelines |-> 0]
  /\ calls' = [p \in Pipelines |-> <<>>]
  /\ errs' = [p \in Pipelines |-> {}]
  /\ thrown' = [p \in Pipelines |-> "none"]
  /\ trace' = [p \in Pipelines |-> <<>>]
  /\ run' = [p \in Pipelines |-> NoRun]
  /\ UNCHANGED <<holds, fn>>

PipelineNext ==
  \E p \in Pipelines :
    \/ MakeKafkaServer(p)
    \/ AllocatePorts(p)
    \/ CreateTempDirectory(p)
    \/ CreateKafkaConfig(p)
    \/ PropsSave(p)
    \/ InitializeStorage(p)
    \/ StartKafkaProcess(p)
    \/ OnChildError(p)
    \/ BrokerBind(p)
    \/ ChildCrash(p)
    \/ ChildKilled(p)
    \/ TimerFire(p)
    \/ DeliverHandle(p)
    \/ Close(p)
    \/ \E c \in 1..MaxCloseCalls : StopKafkaServer(p, c)
    \/ \E c \in 1..MaxCloseCalls : StopExit(p, c)

Next ==
  \/ PipelineNext
  \/ ProcessExit

Spec == Init /\ [][Next]_vars

\* ---- single calls, on their own ----
\* createKafkaConfig, the spawn call of startKafkaProcess and
\* getAvailablePort as functions of their inputs: the call is drawn in the
\* initial state and the actions below carry it out.

TemplateKeys == {"log.dirs", "listeners", "controller.listener.names",
                 "node.id", "num.partitions"}

\* the property sets a template file may hold
Templates ==
  UNION {[S -> {<<"template">>}] : S \in SUBSET TemplateKeys}

\* a workspace path of a POSIX host and one of a Windows host
Dirs == {<<"/", "tmp", "/", "kafka-x">>, <<"C:", "\\", "tmp", "\\", "kafka-x">>}

\* port pairs handed to createKafkaConfig
ConfigPairs ==
  {[kafkaPort |-> BASE_PORT, controllerPort |-> BASE_PORT + 1],
   [kafkaPort |-> BASE_PORT + 1, controllerPort |-> BASE_PORT + NumPorts - 1]}

EnvNames == {"PATH", "JMX_PORT", "KAFKA_PLEASE_LOG"}

\* the environments the harness process may run in
Envs == UNION {[S -> {"", "v"}] : S \in SUBSET EnvNames}

ConfigCalls ==
  [kind : {"config"}, template : Templates, dir : Dirs, pair : ConfigPairs,
   out : {NoProps}, done : {FALSE}]

SpawnCalls ==
  [kind : {"spawn"}, dir : Dirs, win : BOOLEAN, env : Envs,
   out : {NoSpawn}, envAfter : {NoEnv}, done : {FALSE}]

\* getAvailablePort with a given this.takenPorts on a host where the ports
\* of bindable can be bound
ProbeCalls ==
  [kind : {"probe"}, taken : SUBSET Ports, bindable : SUBSET Ports,
   at : {"getPort"}, port : {0}]

FnInit ==
  /\ HarnessInit
  /\ fn \in ConfigCalls \cup SpawnCalls \cup ProbeCalls

\* createKafkaConfig with a template that could be read
ApplyCreateKafkaConfig ==
  /\ fn.kind = "config"
  /\ ~fn.done
  /\ fn' = [fn EXCEPT
       !.out = CreateConfigProps(fn.template, fn.dir,
                                 ConfigPorts(fn.pair).kafkaPort,
                                 ConfigPorts(fn.pair).controllerPort),
       !.done = TRUE]
  /\ UNCHANGED <<pc, takenPorts, probed, ports, kafkaDir, configFile,
                 formatted, child, holds, timer, kills, calls, errs, thrown,
                 trace, run, proc>>

\* the spawn call of startKafkaProcess, lines 169-178
ApplySpawn ==
  /\ fn.kind = "spawn"
  /\ ~fn.done
  /\ fn' = [fn EXCEPT
       !.out = SpawnOptions(fn.dir, fn.env, fn.win),
       !.envAfter = EnvAfterSpawn(fn.env),
       !.done = TRUE]
  /\ UNCHANGED <<pc, takenPorts, probed, ports, kafkaDir, configFile,
                 formatted, child, holds, timer, kills, calls, errs, thrown,
                 trace, run, proc>>

\* portfinder.getPort(cb) without options: the scan starts at basePort and
\* ends at the lowest port that can be bound; with none left it reports an
\* error
PortfinderGetPort ==
  /\ fn.kind = "probe"
  /\ fn.at = "getPort"
  /\ LET free == {x \in fn.bindable : x >= BASE_PORT}
     IN fn' = IF free = {}
              THEN [fn EXCEPT !.at = "err"]
              ELSE [fn EXCEPT !.at = "callback", !.port = Min(free)]
  /\ UNCHANGED <<pc, takenPorts, probed, ports, kafkaDir, configFile,
                 formatted, child, holds, timer, kills, calls, errs, thrown,
                 trace, run, proc>>

\* getAvailablePort, lines 64-80: the callback of portfinder.getPort.  An
\* error rejects; a port of takenPorts calls getPortRecursive, that is
\* portfinder.getPort, again with the same arguments; any other port
\* resolves the promise.
GetPortCallback ==
  /\ fn.kind = "probe"
  /\ fn.at \in {"callback", "err"}
  /\ fn' = IF fn.at = "err" THEN [fn EXCEPT !.at = "rejected"]
           ELSE IF fn.port \in fn.taken THEN [fn EXCEPT !.at = "getPort"]
           ELSE [fn EXCEPT !.at = "resolved"]
  /\ UNCHANGED <<pc, takenPorts, probed, ports, kafkaDir, configFile,
                 formatted, child, holds, timer, kills, calls, errs, thrown,
                 trace, run, proc>>

FnNext ==
  \/ ApplyCreateKafkaConfig
  \/ ApplySpawn
  \/ PortfinderGetPort
  \/ GetPortCallback

FnSpec == FnInit /\ [][FnNext]_vars

\* the event loop runs every callback that is due
FnFairSpec == FnSpec /\ WF_vars(PortfinderGetPort) /\ WF_vars(GetPortCallback)

\* the operating system kills a process that was sent SIGKILL, and the
\* event loop runs the continuation of close and the exit listener of the
\* stop script
FairSpec ==
  /\ Spec
  /\ \A p \in Pipelines : WF_vars(ChildKilled(p))
  /\ \A p \in Pipelines : \A c \in 1..MaxCloseCalls :
       WF_vars(StopKafkaServer(p, c)) /\ WF_vars(StopExit(p, c))

TypeOK ==
  /\ pc \in [Pipelines -> {"init", "allocatePorts", "createTempDirectory",
                           "createKafkaConfig", "props.save",
                           "initializeStorage", "startKafkaProcess",
                           "waiting", "resolved", "rejected", "gone"}]
  /\ \A p \in Pipelines :
       /\ takenPorts[p] = <<>>
       /\ Len(probed[p]) <= 2
       /\ child[p] \in {"none", "running", "failed", "exited"}
       /\ timer[p] \in {"unset", "pending", "fired"}
       /\ holds[p] \subseteq Ports
       /\ kills[p] \in 0..MaxCloseCalls
       /\ errs[p] \subseteq Steps
       /\ thrown[p] \in Steps \cup {"none"}

Range(f) == {f[i] : i \in DOMAIN f}

Last(f) == f[Len(f)]

\* ---- close: killProcess, then stopKafkaServer ----

\* C1: for every call of close, the stop script is spawned only after the
\* SIGKILL of that call was sent and the exit event of the child was emitted
\* and observed by the call; it is never spawned while the child still runs.
C1_StopAfterExit ==
  \A p \in Pipelines : \A c \in DOMAIN calls[p] :
    /\ calls[p][c].exitObserved => kills[p] >= c /\ child[p] = "exited"
    /\ calls[p][c].stop # "none" =>
         /\ kills[p] >= c
         /\ calls[p][c].exitObserved
         /\ child[p] = "exited"

\* a close call has spawned the stop script after the child's exit
C1_Witness ==
  \E p \in Pipelines : \E c \in DOMAIN calls[p] :
    calls[p][c].stop = "running" /\ child[p] = "exited" /\ kills[p] >= c

\* C2: whenever the promise of a close call has resolved, the broker process
\* of that handle has exited: it is not running and holds no port.
C2_ResolvedCloseMeansExited ==
  \A p \in Pipelines : \A c \in DOMAIN calls[p] :
    CloseResolved(p, c) => child[p] = "exited" /\ holds[p] = {}

\* the promise of a close call has resolved
C2_Witness ==
  \E p \in Pipelines : \E c \in DOMAIN calls[p] :
    CloseResolved(p, c) /\ pc[p] = "resolved"

\* ---- startKafkaProcess ----

\* C3: a handle is delivered only after the child was spawned and the
\* startup timer armed after the spawn has fired.
C3_HandleAfterSpawnAndTimer ==
  \A p \in Pipelines :
    pc[p] = "resolved" =>
      /\ "spawn" \in Range(trace[p])
      /\ child[p] # "none"
      /\ timer[p] = "fired"

\* a handle has been delivered
C3_Witness ==
  \E p \in Pipelines : pc[p] = "resolved" /\ timer[p] = "fired"

\* C4: at the moment start resolves with a handle, the child it refers to
\* has been launched and has not exited.
C4_HandleIsLive ==
  [][\A p \in Pipelines :
       (pc[p] # "resolved" /\ pc'[p] = "resolved") => child'[p] = "running"]_vars

\* C5: when the child emits an error event because the binary cannot be
\* launched, start does not return a handle (its promise rejects).
C5_SpawnErrorRejects ==
  \A p \in Pipelines : "spawn" \in errs[p] => pc[p] # "resolved"

\* ---- allocatePorts ----

\* C6: the two ports of every allocated pair are distinct.
C6_PairDistinct ==
  \A p \in Pipelines :
    Allocated(p) => ports[p].kafkaPort # ports[p].controllerPort

\* an allocation has succeeded with two ports of the scanned range
C6_Witness ==
  \E p \in Pipelines : Allocated(p) /\ PortSet(ports[p]) \subseteq Ports

\* C7: across the makeKafkaServer invocations of one process, no port
\* returned by an allocation was returned by another, earlier allocation.
C7_NoPortReturnedTwice ==
  \A p, q \in Pipelines :
    (p # q /\ Allocated(p) /\ Allocated(q)) =>
      PortSet(ports[p]) \cap PortSet(ports[q]) = {}

\* C8: two pipelines that both probed for ports before either broker was
\* spawned hold port pairs that do not overlap.
C8_ConcurrentPairsDisjoint ==
  \A p, q \in Pipelines :
    (/\ p # q
     /\ Allocated(p) /\ Allocated(q)
     /\ child[p] = "none" /\ child[q] = "none"
     /\ pc[p] # "rejected" /\ pc[q] # "rejected") =>
      PortSet(ports[p]) \cap PortSet(ports[q]) = {}

\* ---- startKafkaServer: failures ----

\* C9: a failure of any provisioning step is terminal: the pipeline rejects
\* with that failure and the failed step is the last step that was started.
C9_FailureTerminal ==
  \A p \in Pipelines : \A s \in errs[p] :
    /\ pc[p] = "rejected"
    /\ thrown[p] = s
    /\ Last(trace[p]) = s

\* C10: config generation rejects when the template cannot be read and when
\* the destination cannot be written, so that the format command is not
\* started; the format command is started only with a written config file.
C10_ConfigFailureRejects ==
  \A p \in Pipelines :
    /\ errs[p] \cap {"createEditor", "props.save"} # {} =>
         /\ pc[p] = "rejected"
         /\ "exec" \notin Range(trace[p])
    /\ "exec" \in Range(trace[p]) => configFile[p] = "written"

\* ---- reading text back ----

IsDigit(t) == \E i \in 1..10 : DigitChars[i] = t

DigitValue(t) == (CHOOSE i \in 1..10 : DigitChars[i] = t) - 1

\* the number that the run of decimal digits of value starting at position i
\* stands for, continuing from the digits read so far
RECURSIVE ParseDecimal(_, _, _)
ParseDecimal(value, i, sofar) ==
  IF i > Len(value) \/ ~IsDigit(value[i]) THEN sofar
  ELSE ParseDecimal(value, i + 1, sofar * 10 + DigitValue(value[i]))

\* the port that follows marker in a property value, -1 without one
PortAfter(value, marker) ==
  LET at == {j \in 1..Len(value) : value[j] = marker}
  IN IF at = {} THEN -1
     ELSE LET i == CHOOSE j \in at : \A k \in at : j <= k
          IN IF i + 1 > Len(value) \/ ~IsDigit(value[i + 1]) THEN -1
             ELSE ParseDecimal(value, i + 1, 0)

\* what the loader of a properties file makes of a value: a backslash
\* quotes the token after it
RECURSIVE ReadBack(_)
ReadBack(value) ==
  IF value = <<>> THEN <<>>
  ELSE IF Head(value) = "\\"
       THEN (IF Len(value) >= 2 THEN <<value[2]>> ELSE <<>>)
              \o ReadBack(SubSeq(value, 3, Len(value)))
       ELSE <<Head(value)>> \o ReadBack(Tail(value))

FiveKeys == {"log.dirs", "controller.quorum.bootstrap.servers", "listeners",
             "advertised.listeners", "controller.listener.names"}

StepOrder == <<"getPorts", "tmp.dir", "createEditor", "props.save", "exec",
               "spawn">>

IsPrefix(a, b) == Len(a) <= Len(b) /\ a = SubSeq(b, 1, Len(a))

\* ---- startKafkaServer: order ----

\* C11: the steps run in the order port allocation, workspace, config,
\* storage format, spawn, each started only after the one before it
\* completed successfully; the format command runs once per run, against
\* the generated config file, and before the spawn.
C11_StepsInOrder ==
  \A p \in Pipelines :
    /\ IsPrefix(trace[p], StepOrder)
    /\ \A i \in 1..(Len(trace[p]) - 1) : trace[p][i] \notin errs[p]
    /\ formatted[p] <= 1
    /\ "spawn" \in Range(trace[p]) => formatted[p] = 1
    /\ "exec" \in Range(trace[p]) =>
         /\ configFile[p] = "written"
         /\ run[p].execArg = PathJoin(TmpDir(p), "server.properties", proc.win)

\* ---- createKafkaConfig: content ----

\* C12: the generated config is the template with exactly the five keys
\* set to the values of the instance: no other key is added, every other
\* key of the template keeps its value, log.dirs reads back as the
\* workspace path, the listeners and the bootstrap address carry the two
\* ports, and the controller listener is named CONTROLLER.
C12_ConfigIsTemplatePlusFive ==
  (fn.kind = "config" /\ fn.done) =>
    /\ DOMAIN fn.out = DOMAIN fn.template \cup FiveKeys
    /\ \A k \in DOMAIN fn.template \ FiveKeys : fn.out[k] = fn.template[k]
    /\ ReadBack(fn.out["log.dirs"]) = fn.dir
    /\ fn.out["controller.quorum.bootstrap.servers"]
         = <<"localhost:">> \o ToDecimal(fn.pair.controllerPort)
    /\ PortAfter(fn.out["listeners"], "PLAINTEXT://localhost:")
         = fn.pair.kafkaPort
    /\ PortAfter(fn.out["listeners"], ",CONTROLLER://localhost:")
         = fn.pair.controllerPort
    /\ Len(fn.out["listeners"])
         = 2 + Len(ToDecimal(fn.pair.kafkaPort))
             + Len(ToDecimal(fn.pair.controllerPort))
    /\ fn.out["advertised.listeners"] = fn.out["listeners"]
    /\ fn.out["controller.listener.names"] = <<"CONTROLLER">>

\* a config was generated from a template that holds other keys and some
\* of the five, for a Windows workspace path
C12_Witness ==
  /\ fn.kind = "config" /\ fn.done
  /\ DOMAIN fn.template \ FiveKeys # {}
  /\ DOMAIN fn.template \cap FiveKeys # {}
  /\ "\\" \in Range(fn.dir)

\* ---- close: who terminates the child ----

C14_WorkspaceRemovedAtExit ==
  \A p \in Pipelines :
    /\ (kafkaDir[p] /\ ~proc.exited) => proc.graceful
    /\ proc.exited => ~kafkaDir[p] /\ configFile[p] = "absent"

\* the process exited while the workspace of a handle that was never closed
\* and the workspace of a failed pipeline existed
C14_Witness ==
  /\ proc.exited
  /\ \E p \in proc.atExit.unclosed : p \notin proc.atExit.failed
  /\ proc.atExit.failed # {}
  /\ \A p \in Pipelines : ~kafkaDir[p]

\* ---- takenPorts ----

\* C16: after a successful allocation both returned ports are in the
\* takenPorts of the harness, and no port ever leaves takenPorts.
C16_TakenPortsTracksAllocations ==
  \A p \in Pipelines :
    Allocated(p) => PortSet(ports[p]) \subseteq Range(takenPorts[p])

\* ---- startKafkaProcess: the spawn call ----

\* C17: the server is spawned with the config file of the workspace as its
\* only argument, the workspace as working directory and the environment
\* of the harness with JMX_PORT set to the empty string; the environment
\* of the harness itself is unchanged.
C17_SpawnArguments ==
  (fn.kind = "spawn" /\ fn.done) =>
    /\ Len(fn.out.args) = 1
    /\ SubSeq(fn.out.args[1], 1, Len(fn.dir)) = fn.dir
    /\ Len(fn.out.args[1]) = Len(fn.dir) + 2
    /\ fn.out.args[1][Len(fn.dir) + 2] = "server.properties"
    /\ fn.out.cwd = fn.dir
    /\ DOMAIN fn.out.env = DOMAIN fn.env \cup {"JMX_PORT"}
    /\ fn.out.env["JMX_PORT"] = ""
    /\ \A k \in DOMAIN fn.env \ {"JMX_PORT"} : fn.out.env[k] = fn.env[k]
    /\ fn.envAfter = fn.env

\* a spawn from a harness whose JMX_PORT was set to a value
C17_Witness ==
  /\ fn.kind = "spawn" /\ fn.done
  /\ "JMX_PORT" \in DOMAIN fn.env
  /\ fn.env["JMX_PORT"] = "v"
  /\ "PATH" \in DOMAIN fn.env

\* ---- close: termination ----

\* C18: the first call of close on a handle eventually resolves, provided
\* the stop script can be launched, also when the child had exited before
\* close was called.
C18_CloseResolves ==
  \A p \in Pipelines :
    (calls[p] # <<>>) ~>
      \/ proc.exited
      \/ calls[p] # <<>> /\ calls[p][1].stop \in {"exited", "failed"}

\* ---- ports and paths through the pipeline ----

\* C19: the port of the handle is the first port of the allocated pair and
\* the PLAINTEXT port of listeners and advertised.listeners in the written
\* config file; the bootstrap port is the CONTROLLER listener port; the
\* config path given to the format command is the one the server is
\* started with.
C19_PortsAndPathsAgree ==
  \A p \in Pipelines :
    LET props == run[p].props
        plain == PortAfter(props["listeners"], "PLAINTEXT://localhost:")
        advertised == PortAfter(props["advertised.listeners"],
                                "PLAINTEXT://localhost:")
        controller == PortAfter(props["listeners"], ",CONTROLLER://localhost:")
        bootstrap == PortAfter(props["controller.quorum.bootstrap.servers"],
                               "localhost:")
    IN /\ run[p].handlePort # 0 =>
            /\ run[p].handlePort = probed[p][1]
            /\ run[p].handlePort = ports[p].kafkaPort
            /\ configFile[p] = "written" => run[p].handlePort = plain
       /\ props # NoProps =>
            /\ plain = ports[p].kafkaPort
            /\ advertised = ports[p].kafkaPort
            /\ controller = ports[p].controllerPort
            /\ bootstrap = controller
       /\ run[p].spawn # NoSpawn => run[p].spawn.args = <<run[p].execArg>>

\* a handle was delivered for a server started with a written config
C19_Witness ==
  \E p \in Pipelines :
    /\ pc[p] = "resolved"
    /\ run[p].handlePort \in Ports
    /\ run[p].props # NoProps
    /\ run[p].spawn # NoSpawn

\* ---- getAvailablePort ----

\* C20: with a bindable port outside takenPorts, getAvailablePort
\* eventually resolves with a bindable port that is not in takenPorts.
C20_ProbeTerminates ==
  (fn.kind = "probe" /\ fn.bindable \ fn.taken # {}) =>
    <>(/\ fn.kind = "probe"
       /\ fn.at = "resolved"
       /\ fn.port \in fn.bindable \ fn.taken)

====
